---------------------------- MODULE Spec2Model ----------------------------
(***************************************************************************)
(* go-app-builder/parser.go: ParseFiles assembles the packages of an app,  *)
(* pulls the packages it needs from GOPATH, builds the dependency lists    *)
(* and sorts the package list topologically, reporting a cycle on failure. *)
(*                                                                         *)
(* Strings are sequences of one-character strings, so that comparison,     *)
(* concatenation and formatting are computed and not assumed.  Packages    *)
(* are pointers in the source; here a package is its index in the arena    *)
(* pkgs, and every []*Package is a sequence of such indices.               *)
(***************************************************************************)
EXTENDS Integers, Sequences, FiniteSets, TLC

VARIABLES
    input,      \* what the run is given: flags, parsed files, rng outcome
    gopath,     \* answers gopathPackage has given so far, by import path
    pkgs,       \* the arena of Package objects
    pkgFiles,   \* ParseFiles: pkgFiles, app package name => its files
    app,        \* the App under construction
    pc,         \* position of ParseFiles / topologicalSort
    todo,       \* directories the range over pkgFiles has not visited yet
    cur,        \* addFromGOPATH: index i into app.Packages
    warned,     \* addFromGOPATH: warned
    p0,         \* app.Packages as handed to topologicalSort
    lo,         \* topologicalSort: how many packages p = p[n:] has dropped
    selected,   \* topologicalSort: selected
    cycle,      \* findCycle: cycle
    ret,        \* what the function returned
    pf          \* parseFile and checkImport: argument, locals and result

vars == <<input, gopath, pkgs, pkgFiles, app, pc, todo, cur, warned, p0, lo,
          selected, cycle, ret, pf>>

-----------------------------------------------------------------------------
(* Bounds of the model. *)

\* packages in a list handed to topologicalSort (SortSpec)
MaxPkgs == 3
\* dependency edges in such a list (SortSpec)
MaxEdges == 3
\* source files of the app handed to ParseFiles (Spec)
MaxFiles == 2

-----------------------------------------------------------------------------
(* Strings. *)

NIL == "nil"

\* the nil *Package
NoPkg == 0

\* The characters the model's strings use, in ascending byte order.
OrdChars ==
    << "$", "-", ".", "/", "0", "1", "2", "3", "4", "5", "6", "7", "8", "9",
       "_", "a", "b", "c", "d", "e", "f", "g", "h", "i", "j", "k", "l", "m",
       "n", "o", "p", "q", "r", "s", "t", "u", "v", "w", "x", "y", "z", "~" >>

CharRank(c) == CHOOSE i \in 1..Len(OrdChars) : OrdChars[i] = c

MinNat(a, b) == IF a < b THEN a ELSE b

\* Go's s < t on strings: bytewise lexicographic.
StrLess(s, t) ==
    \E k \in 1..(MinNat(Len(s), Len(t)) + 1) :
        /\ \A j \in 1..(k - 1) : s[j] = t[j]
        /\ \/ /\ k <= Len(s)
              /\ k <= Len(t)
              /\ CharRank(s[k]) < CharRank(t[k])
           \/ /\ k = Len(s) + 1
              /\ k <= Len(t)

\* strings.Contains(s, sub)
Contains(s, sub) ==
    \E k \in 0..(Len(s) - Len(sub)) :
        \A j \in 1..Len(sub) : s[k + j] = sub[j]

Range(s) == {s[i] : i \in DOMAIN s}

Perms(S) ==
    {s \in [1..Cardinality(S) -> S] : \A i, j \in DOMAIN s : s[i] = s[j] => i = j}

-----------------------------------------------------------------------------
(* Package objects. *)

NewPackage(imp, files, baseDir) ==
    [ImportPath |-> imp, Files |-> files, BaseDir |-> baseDir,
     Dependencies |-> <<>>, HasInit |-> FALSE, Dupe |-> FALSE]

\* make(map[string]...)
EmptyMap == [q \in {} |-> NoPkg]

\* m[key] = val
MapPut(m, key, val) ==
    [q \in DOMAIN m \cup {key} |-> IF q = key THEN val ELSE m[q]]

\* a source file with nothing in it
EmptySource ==
    [pkgName |-> <<"p">>, syntax |-> FALSE, imports |-> <<>>, funcs |-> <<>>,
     lits |-> <<>>]

\* parseFile not entered: arg is checkImport's argument and accepted its
\* result; src is the file, k and imports are the loop of lines 312-326, n,
\* tracked and errors are the checker's walk, files and err are the result
PfIdle ==
    [arg |-> <<>>, accepted |-> FALSE, filename |-> <<>>, src |-> EmptySource,
     k |-> 1, imports |-> <<>>, n |-> 1, tracked |-> <<>>, errors |-> <<>>,
     files |-> <<>>, err |-> NIL]

\* line 99-101
EmptyApp ==
    [Files |-> <<>>, Packages |-> <<>>, RootPackages |-> <<>>,
     PackageIndex |-> EmptyMap]

PathOf(arena, id) == arena[id].ImportPath

DepsOf(arena, id) == arena[id].Dependencies

-----------------------------------------------------------------------------
(* topologicalSort, lines 488-522. *)

\* lines 500-504 with the mark read as always set
DepsSelectedMut(arena, sel, id) == TRUE

\* lines 500-504: no dependency of pkg is unselected
DepsSelected(arena, sel, id) ==
    \A k \in 1..Len(DepsOf(arena, id)) : DepsOf(arena, id)[k] \in sel

\* line 505 dropped: the package is moved but never marked
SelectMut(sel, id) == sel

\* line 505: selected[pkg] = true
Select(sel, id) == sel \cup {id}

\* line 506 with the second assignment lost: p[n] = pkg, p[i] left as it was
SwapToFrontOverwrite(list, i, n) ==
    [list EXCEPT ![n] = list[i]]

\* line 506 with the slot of the first package for p[n]: p[i], p[0] = p[0], pkg
SwapToFrontMut(list, i, n) ==
    [list EXCEPT ![i] = list[1], ![1] = list[i]]

\* line 506: p[i], p[n] = p[n], pkg   (pkg = p[i], read before the write)
SwapToFront(list, i, n) ==
    [list EXCEPT ![i] = list[n], ![n] = list[i]]

\* lines 499-508: the sweep from index i of the working list p = list[base+1..],
\* n packages already moved to its front.
RECURSIVE SweepFrom(_, _, _, _, _, _)
SweepFrom(arena, list, base, sel, i, n) ==
    IF base + i > Len(list)
    THEN [list |-> list, sel |-> sel, n |-> n]
    ELSE LET id == list[base + i]
         IN  IF DepsSelected(arena, sel, id)
             THEN SweepFrom(arena, SwapToFront(list, base + i, base + n + 1),
                            base, Select(sel, id), i + 1, n + 1)
             ELSE SweepFrom(arena, list, base, sel, i + 1, n)

\* lines 497-508: one round
Sweep(arena, list, base, sel) == SweepFrom(arena, list, base, sel, 1, 0)

-----------------------------------------------------------------------------
(* findCycle, lines 526-563. *)

\* lines 529-534 keeping the first package instead of the smallest
FindMinMut(arena, rest) == rest[1]

\* lines 528-534: the first package with the smallest import path
FindMin(arena, rest) ==
    LET RECURSIVE Scan(_, _)
        Scan(i, min) ==
            IF i > Len(rest) THEN min
            ELSE IF min = NoPkg \/ StrLess(PathOf(arena, rest[i]), PathOf(arena, min))
                 THEN Scan(i + 1, rest[i])
                 ELSE Scan(i + 1, min)
    IN  Scan(1, NoPkg)

\* i, ok := seen[dep]: whether dep is in cycle, and its index there (0-based)
InSeen(cyc, dep) == \E k \in 1..Len(cyc) : cyc[k] = dep

Seen(cyc, dep) == (CHOOSE k \in 1..Len(cyc) : cyc[k] = dep) - 1

\* lines 542-547: the first dependency of last that is in seen, or nil
FirstSeenDep(arena, cyc) ==
    LET deps == DepsOf(arena, cyc[Len(cyc)])
        hits == {k \in 1..Len(deps) : InSeen(cyc, deps[k])}
    IN  IF hits = {} THEN NoPkg
        ELSE deps[CHOOSE k \in hits : \A m \in hits : k <= m]

\* lines 552-558 without the pkgMap test: the first dependency of last, or nil
FirstDepInAny(arena, cyc, pkgMap) ==
    LET deps == DepsOf(arena, cyc[Len(cyc)])
    IN  IF deps = <<>> THEN NoPkg ELSE deps[1]

\* lines 552-558: the first dependency of last that is in pkgMap, or nil
FirstDepIn(arena, cyc, pkgMap) ==
    LET deps == DepsOf(arena, cyc[Len(cyc)])
        hits == {k \in 1..Len(deps) : deps[k] \in pkgMap}
    IN  IF hits = {} THEN NoPkg
        ELSE deps[CHOOSE k \in hits : \A m \in hits : k <= m]

\* line 545 returning the whole walk: return cycle
CycleFromMut(cyc, i) == cyc

\* line 545: return cycle[i:]
CycleFrom(cyc, i) == SubSeq(cyc, i + 1, Len(cyc))

\* lines 512-516: the import paths of cycle, the first one repeated
CyclePaths(arena, cyc) ==
    [k \in 1..(Len(cyc) + 1) |->
        IF k <= Len(cyc) THEN PathOf(arena, cyc[k]) ELSE PathOf(arena, cyc[1])]

\* lines 540-562: the walk from cyc to the returned cycle; <<>> stands for the
\* nil dereference of line 542 after line 561 appended a nil dep
RECURSIVE Walk(_, _, _)
Walk(arena, cyc, pkgMap) ==
    LET hit == FirstSeenDep(arena, cyc)
        nxt == FirstDepIn(arena, cyc, pkgMap)
    IN  IF hit # NoPkg THEN CycleFrom(cyc, Seen(cyc, hit))
        ELSE IF nxt = NoPkg THEN <<>>
        ELSE Walk(arena, Append(cyc, nxt), pkgMap)

FindCycle(arena, rest) == Walk(arena, <<FindMin(arena, rest)>>, Range(rest))

\* The whole of topologicalSort on list, as one function of its argument.
RECURSIVE TopoRun(_, _, _, _)
TopoRun(arena, list, base, sel) ==
    IF base = Len(list)
    THEN [list |-> list, err |-> NIL, paths |-> <<>>]
    ELSE LET r == Sweep(arena, list, base, sel)
         IN  IF r.n = 0
             THEN LET cyc == FindCycle(arena, SubSeq(list, base + 1, Len(list)))
                  IN  [list |-> r.list, err |-> "cyclic",
                       paths |-> IF cyc = <<>> THEN <<>> ELSE CyclePaths(arena, cyc)]
             ELSE TopoRun(arena, r.list, base + r.n, r.sel)

TopologicalSort(arena, list) == TopoRun(arena, list, 0, {})

-----------------------------------------------------------------------------
(* topologicalSort as steps: one round, or one turn of findCycle's loop. *)

Remaining == SubSeq(app.Packages, lo + 1, Len(app.Packages))

AppFrame ==
    UNCHANGED <<input, gopath, pkgs, pkgFiles, todo, cur, warned, p0, pf>>

\* line 490 found len(p) = 0: return nil (line 521)
SortReturn ==
    /\ pc = "sort"
    /\ lo = Len(app.Packages)
    /\ pc' = "done"
    /\ ret' = [ok |-> TRUE, err |-> NIL, paths |-> <<>>]
    /\ UNCHANGED <<app, lo, selected, cycle>>
    /\ AppFrame

\* lines 497-508 and 519: a round that selects n > 0 packages
SortRound ==
    /\ pc = "sort"
    /\ lo < Len(app.Packages)
    /\ LET r == Sweep(pkgs, app.Packages, lo, selected)
       IN  /\ r.n > 0
           /\ app' = [app EXCEPT !.Packages = r.list]
           /\ selected' = r.sel
           /\ lo' = lo + r.n
    /\ UNCHANGED <<pc, cycle, ret>>
    /\ AppFrame

\* lines 509-511 and 527-539: a round that selects nothing enters findCycle
SortStuck ==
    /\ pc = "sort"
    /\ lo < Len(app.Packages)
    /\ LET r == Sweep(pkgs, app.Packages, lo, selected)
       IN  /\ r.n = 0
           /\ app' = [app EXCEPT !.Packages = r.list]
           /\ selected' = r.sel
    /\ cycle' = <<FindMin(pkgs, Remaining)>>
    /\ pc' = "findCycle"
    /\ UNCHANGED <<lo, ret>>
    /\ AppFrame

\* lines 541-561: one turn of the loop that extends the walk
CycleExtend ==
    /\ pc = "findCycle"
    /\ FirstSeenDep(pkgs, cycle) = NoPkg
    /\ LET nxt == FirstDepIn(pkgs, cycle, Range(Remaining))
       IN  IF nxt = NoPkg
           THEN /\ pc' = "panic"
                /\ cycle' = Append(cycle, NoPkg)
           ELSE /\ pc' = pc
                /\ cycle' = Append(cycle, nxt)
    /\ UNCHANGED <<app, lo, selected, ret>>
    /\ AppFrame

\* lines 541-545 and 512-517: the walk closes; topologicalSort returns the error
CycleFound ==
    /\ pc = "findCycle"
    /\ FirstSeenDep(pkgs, cycle) # NoPkg
    /\ LET found == CycleFrom(cycle, Seen(cycle, FirstSeenDep(pkgs, cycle)))
       IN  /\ cycle' = found
           /\ ret' = [ok |-> FALSE, err |-> "cyclic",
                      paths |-> CyclePaths(pkgs, found)]
    /\ pc' = "done"
    /\ UNCHANGED <<app, lo, selected>>
    /\ AppFrame

SortNext ==
    \/ SortReturn
    \/ SortRound
    \/ SortStuck
    \/ CycleExtend
    \/ CycleFound

-----------------------------------------------------------------------------
(* SortSpec: topologicalSort on every list of at most MaxPkgs packages with *)
(* at most MaxEdges dependencies, all of them in the list, in every order.  *)

\* Import paths of the packages of SortSpec, package k has SortPaths[k].
SortPaths ==
    << <<"a">>, <<"a", "b">>, <<"b">>, <<"b", "/", "a">>, <<"c">>, <<"d">> >>

\* ids in ascending order of import path (sort.Sort(byImportPath(...)))
RECURSIVE SortByImportPath(_, _)
SortByImportPath(arena, ids) ==
    IF ids = {} THEN <<>>
    ELSE LET m == CHOOSE x \in ids :
                    \A y \in ids \ {x} : ~StrLess(PathOf(arena, y), PathOf(arena, x))
         IN  <<m>> \o SortByImportPath(arena, ids \ {m})

Reverse(s) == [k \in 1..Len(s) |-> s[Len(s) + 1 - k]]

SortArena(n, E, desc) ==
    LET bare == [k \in 1..n |-> NewPackage(SortPaths[k], <<>>, <<>>)]
    IN  [k \in 1..n |->
            LET asc == SortByImportPath(bare, {j \in 1..n : <<k, j>> \in E})
            IN  [bare[k] EXCEPT !.Dependencies = IF desc THEN Reverse(asc) ELSE asc]]

\* the graphs of SortSpec: at most MaxEdges dependencies among n packages
EdgeSets(n) == {E \in SUBSET ((1..n) \X (1..n)) : Cardinality(E) <= MaxEdges}

\* dependency lists ascend by import path, or descend where that differs
DepOrders(E) ==
    IF \E e1, e2 \in E : e1[1] = e2[1] /\ e1[2] # e2[2]
    THEN BOOLEAN ELSE {FALSE}

SortInit ==
    \E n \in 1..MaxPkgs :
      \E E \in EdgeSets(n) :
        \E order \in Perms(1..n) :
          \E desc \in DepOrders(E) :
            /\ pkgs = SortArena(n, E, desc)
            /\ app = [EmptyApp EXCEPT !.Packages = order]
            /\ p0 = order
            /\ pc = "sort"
            /\ lo = 0
            /\ selected = {}
            /\ cycle = <<>>
            /\ ret = [ok |-> FALSE, err |-> NIL, paths |-> <<>>]
            /\ input = <<>>
            /\ gopath = EmptyMap
            /\ pkgFiles = EmptyMap
            /\ todo = {}
            /\ cur = [i |-> 1, k |-> 1]
            /\ warned = {}
            /\ pf = PfIdle

SortSpec == SortInit /\ [][SortNext]_vars

\* topologicalSort runs to its return: the loops of lines 490 and 540 are
\* sequential code, so a step that is enabled is eventually taken
SortFairSpec == SortInit /\ [][SortNext]_vars /\ WF_vars(SortNext)

-----------------------------------------------------------------------------
(* ParseFiles, lines 98-243: strings, flags and oracles. *)

Dot == <<".">>

Slash == <<"/">>

Comma == ","

\* the import path line 180 forbids
ReservedMain == <<"m", "a", "i", "n">>

Digits == <<"0", "1", "2", "3", "4", "5", "6", "7", "8", "9">>

\* fmt.Sprintf("%05d", n) for 0 <= n < 1e5
Sprintf05d(n) ==
    << Digits[((n \div 10000) % 10) + 1], Digits[((n \div 1000) % 10) + 1],
       Digits[((n \div 100) % 10) + 1], Digits[((n \div 10) % 10) + 1],
       Digits[(n % 10) + 1] >>

\* line 173: fmt.Sprintf("main%05d", rng.Intn(1e5))
TopLevelImportPath(rnd) == ReservedMain \o Sprintf05d(rnd)

\* filepath.Join(dir, f) for clean operands
JoinPath(dir, f) == IF dir = Dot THEN f ELSE dir \o Slash \o f

\* strings.Split(s, sep) for a one-character separator
RECURSIVE Split(_, _)
Split(s, sep) ==
    LET at == {k \in 1..Len(s) : s[k] = sep}
    IN  IF at = {} THEN <<s>>
        ELSE LET k == CHOOSE x \in at : \A y \in at : x <= y
             IN  <<SubSeq(s, 1, k - 1)>> \o Split(SubSeq(s, k + 1, Len(s)), sep)

\* lines 160-165: allowedDupes from the flag -pkg_dupes
AllowedDupes(flag) == IF flag = <<>> THEN {} ELSE Range(Split(flag, Comma))

\* the import paths that resolve under GOROOT (line 463)
GoRoot ==
    { <<"f", "m", "t">>,
      <<"a", "p", "p", "e", "n", "g", "i", "n", "e", "/", "d", "a", "t", "a",
        "s", "t", "o", "r", "e">> }

\* lines 449-471: isStandardPackage (the cache does not change its answers)
IsStandardPackage(path) ==
    IF Contains(path, Dot) THEN FALSE ELSE path \in GoRoot

\* regexp.MatchString for a pattern "body$": body matches the end of name,
\* a period of the pattern matching any character
RegexpMatch(pat, name) ==
    LET body == SubSeq(pat, 1, Len(pat) - 1)
    IN  /\ Len(name) >= Len(body)
        /\ \A j \in 1..Len(body) :
              \/ body[j] = "."
              \/ body[j] = name[Len(name) - Len(body) + j]

\* the nesting of parentheses after pat[k..], from depth d; -1 once a
\* closing parenthesis has none to close
RECURSIVE ParenDepth(_, _, _)
ParenDepth(pat, k, d) ==
    IF d < 0 \/ k > Len(pat) THEN d
    ELSE ParenDepth(pat, k + 1,
                    IF pat[k] = "(" THEN d + 1
                    ELSE IF pat[k] = ")" THEN d - 1 ELSE d)

\* line 206: regexp.Compile(pat) returns a nil error; of the patterns of the
\* model it rejects those with a parenthesis left open or closed unopened
RegexpCompile(pat) == ParenDepth(pat, 1, 0) = 0

\* lines 202-210: the error ParseFiles returns before addFromGOPATH, or nil
NoBuildError(in) ==
    IF in.goPath /\ in.noBuildFiles # <<>> /\ ~RegexpCompile(in.noBuildFiles)
    THEN "bad -nobuild_files"
    ELSE NIL

\* lines 203-210 and 266: the file is dropped by -nobuild_files
NoBuild(flag, path, f) ==
    IF flag = <<>> THEN FALSE ELSE RegexpMatch(flag, JoinPath(path, f))

\* gopathPackage found nothing (line 256)
NotFound == [found |-> FALSE, GoFiles |-> <<>>, Imports |-> <<>>]

\* pkg.Dir of a package found under GOPATH
GopathDir(path) == Slash \o path

-----------------------------------------------------------------------------
(* parseFile, lines 301-347, with checkImport and the literal checker.     *)
(* A source file is what parser.ParseFile makes of it:                     *)
(*   syntax   TRUE when parser.ParseFile returns an error                  *)
(*   imports  the ImportSpecs in source order, [name, value]               *)
(*   funcs    the FuncDecls, [name, recv, params, results]                 *)
(*   lits     the CompositeLits in the order ast.Walk visits them,         *)
(*            [x, sel, elts], elts[k] TRUE for a KeyValueExpr              *)

\* imp.Name == nil; also a literal whose type is not identifier.Sel
NoName == <<>>

DQuote == "\""

\* the source text of an interpreted string literal
Quote(s) == <<DQuote>> \o s \o <<DQuote>>

\* strconv.Unquote on an interpreted string literal that holds no backslash
Unquote(val) ==
    IF /\ Len(val) >= 2
       /\ val[1] = DQuote
       /\ val[Len(val)] = DQuote
       /\ \A k \in 2..(Len(val) - 1) : val[k] # DQuote
    THEN [ok |-> TRUE, s |-> SubSeq(val, 2, Len(val) - 1)]
    ELSE [ok |-> FALSE, s |-> <<>>]

\* line 349: the characters of [a-zA-Z0-9_\-./~]
LegalImportChars ==
    {
      "a", "b", "c", "d", "e", "f", "g", "h", "i", "j", "k", "l", "m",
      "n", "o", "p", "q", "r", "s", "t", "u", "v", "w", "x", "y", "z",
      "A", "B", "C", "D", "E", "F", "G", "H", "I", "J", "K", "L", "M",
      "N", "O", "P", "Q", "R", "S", "T", "U", "V", "W", "X", "Y", "Z",
      "0", "1", "2", "3", "4", "5", "6", "7", "8", "9",
      "_", "-", ".", "/", "~" }

\* line 349: legalImportPath.MatchString, ^[...]+$
LegalImportPath(path) ==
    /\ Len(path) >= 1
    /\ \A k \in 1..Len(path) : path[k] \in LegalImportChars

\* line 356
MaxImportPathLen == 1024

\* filepath.IsAbs, slash-separated paths
IsAbs(path) == Len(path) >= 1 /\ path[1] = "/"

DotDot == <<".", ".">>

Syscall == <<"s", "y", "s", "c", "a", "l", "l">>

Unsafe == <<"u", "n", "s", "a", "f", "e">>

\* lines 352-369 without the test for ".."
CheckImportMut(path) ==
    IF path = <<>> THEN FALSE
    ELSE IF Len(path) > MaxImportPathLen THEN FALSE
    ELSE IF IsAbs(path) THEN FALSE
    ELSE IF ~LegalImportPath(path) THEN FALSE
    ELSE IF path = Syscall \/ path = Unsafe THEN FALSE
    ELSE TRUE

\* lines 352-369
CheckImport(path) ==
    IF path = <<>> THEN FALSE
    ELSE IF Len(path) > MaxImportPathLen THEN FALSE
    ELSE IF IsAbs(path) \/ Contains(path, DotDot) THEN FALSE
    ELSE IF ~LegalImportPath(path) THEN FALSE
    ELSE IF path = Syscall \/ path = Unsafe THEN FALSE
    ELSE TRUE

\* func init()
InitFunc ==
    [name |-> <<"i", "n", "i", "t">>, recv |-> FALSE, params |-> 0,
     results |-> 0]

\* lines 295-298
IsInit(f) ==
    f.name = <<"i", "n", "i", "t">> /\ ~f.recv /\ f.params = 0 /\ f.results = 0

\* lines 315-324 for one ImportSpec
ImportStep(spec) ==
    LET u == Unquote(spec.value)
    IN  IF ~u.ok THEN [err |-> "bad ImportSpec", path |-> <<>>]
        ELSE IF ~CheckImport(u.s) THEN [err |-> "bad import", path |-> <<>>]
        ELSE [err |-> NIL, path |-> u.s]

\* lines 312-326: the imports of the file, or the first error
RECURSIVE ScanImports(_, _, _)
ScanImports(specs, k, acc) ==
    IF k > Len(specs) THEN [err |-> NIL, imports |-> acc]
    ELSE LET r == ImportStep(specs[k])
         IN  IF r.err # NIL THEN [err |-> r.err, imports |-> <<>>]
             ELSE ScanImports(specs, k + 1, Append(acc, r.path))

\* filepath.Base, slash-separated paths
RECURSIVE Base(_)
Base(p) ==
    IF p = <<>> THEN Dot
    ELSE IF p[Len(p)] = "/"
         THEN IF Len(p) = 1 THEN Slash ELSE Base(SubSeq(p, 1, Len(p) - 1))
         ELSE LET at == {k \in 1..Len(p) : p[k] = "/"}
              IN  IF at = {} THEN p
                  ELSE SubSeq(p, (CHOOSE k \in at : \A j \in at : j <= k) + 1,
                              Len(p))

\* lines 392-408: Visit on an ImportSpec; imports is c.imports
VisitImportSpec(imports, imp) ==
    LET pth == Unquote(imp.value).s
    IN  IF ~IsStandardPackage(pth) THEN imports
        ELSE IF imp.name # NoName
             THEN IF imp.name = Dot THEN imports
                  ELSE MapPut(imports, imp.name, pth)
             ELSE MapPut(imports, Base(pth), pth)

\* c.imports once ast.Walk has passed the ImportSpecs from the k-th on
RECURSIVE TrackImports(_, _, _)
TrackImports(specs, k, imports) ==
    IF k > Len(specs) THEN imports
    ELSE TrackImports(specs, k + 1, VisitImportSpec(imports, specs[k]))

\* lines 567-568: the entries init adds to untaggedLiteralWhitelist
UntaggedLiteralWhitelist ==
    { <<"a", "p", "p", "e", "n", "g", "i", "n", "e", "/", "d", "a", "t",
         "a", "s", "t", "o", "r", "e", ".", "P", "r", "o", "p", "e",
         "r", "t", "y", "L", "i", "s", "t">>,
      <<"a", "p", "p", "e", "n", "g", "i", "n", "e", ".", "M", "u", "l",
         "t", "i", "E", "r", "r", "o", "r">> }

\* pth+"."+sel.Sel.Name
TypeName(pth, sel) == pth \o Dot \o sel

\* lines 410-438 with the exception list ignored
FlaggedMut(imports, lit) ==
    /\ lit.x # NoName
    /\ lit.x \in DOMAIN imports
    /\ \E k \in 1..Len(lit.elts) : ~lit.elts[k]

\* lines 410-438: Visit on a CompositeLit records an error
Flagged(imports, lit) ==
    /\ lit.x # NoName
    /\ lit.x \in DOMAIN imports
    /\ TypeName(imports[lit.x], lit.sel) \notin UntaggedLiteralWhitelist
    /\ \E k \in 1..Len(lit.elts) : ~lit.elts[k]

\* line 439: the type the recorded error names
LitError(imports, lit) == TypeName(imports[lit.x], lit.sel)

\* lines 335-336: ch.errors after ast.Walk
RECURSIVE WalkLits(_, _, _, _)
WalkLits(imports, lits, k, errors) ==
    IF k > Len(lits) THEN errors
    ELSE WalkLits(imports, lits, k + 1,
                  IF Flagged(imports, lits[k])
                  THEN Append(errors, LitError(imports, lits[k]))
                  ELSE errors)

\* lines 301-347: files holds the *File returned, or nothing with an error;
\* errors is ch.errors when that is the error
ParseFile(filename, src) ==
    LET scan == ScanImports(src.imports, 1, <<>>)
        errors == WalkLits(TrackImports(src.imports, 1, EmptyMap), src.lits, 1, <<>>)
    IN  IF src.syntax
        THEN [files |-> <<>>, err |-> "syntax", errors |-> <<>>]
        ELSE IF scan.err # NIL
        THEN [files |-> <<>>, err |-> scan.err, errors |-> <<>>]
        ELSE IF Len(errors) > 0
        THEN [files |-> <<>>, err |-> "untagged fields", errors |-> errors]
        ELSE [files |-> <<[Name |-> filename, PackageName |-> src.pkgName,
                           ImportPaths |-> scan.imports,
                           HasInit |-> \E k \in 1..Len(src.funcs) :
                                           IsInit(src.funcs[k])]>>,
              err |-> NIL, errors |-> <<>>]

-----------------------------------------------------------------------------
(* ParseFiles: the operations on the app. *)

\* lines 149-157: the files of one directory join app.Files
AddFiles(a, files) == [a EXCEPT !.Files = @ \o files]

\* lines 189-194 without the loop: only the first file is asked
AnyInitMut(files) == files # <<>> /\ files[1].HasInit

\* lines 189-194
AnyInit(files) == \E k \in 1..Len(files) : files[k].HasInit

\* lines 169-174
LocalImportPath(dirname, rnd) ==
    IF dirname = Dot THEN TopLevelImportPath(rnd) ELSE dirname

\* lines 195-199 with a package added to the list only
RegisterMut(a, id, imp, hasInit) == [a EXCEPT !.Packages = Append(@, id)]

\* lines 195-199 (and 285-286, where hasInit is false)
Register(a, id, imp, hasInit) ==
    [a EXCEPT !.Packages = Append(@, id),
              !.RootPackages = IF hasInit THEN Append(@, id) ELSE @,
              !.PackageIndex = MapPut(@, imp, id)]

\* lines 176-188 with the Dupe flag never set
CreatePackageStepMut(st, dirname, files, in) ==
    LET imp == LocalImportPath(dirname, in.rnd)
        id  == Len(st.pkgs) + 1
        p   == [NewPackage(imp, files, <<>>) EXCEPT !.HasInit = AnyInit(files)]
    IN  IF imp = ReservedMain
        THEN [st EXCEPT !.err = "top-level main package is forbidden"]
        ELSE IF IsStandardPackage(imp) /\ imp \notin AllowedDupes(in.pkgDupes)
        THEN [st EXCEPT !.err = "same name as a standard package"]
        ELSE [st EXCEPT !.app = Register(@, id, imp, p.HasInit),
                        !.pkgs = Append(@, p)]

\* lines 168-200 for one directory of pkgFiles; st is [app, pkgs, warned, err]
CreatePackageStep(st, dirname, files, in) ==
    LET imp == LocalImportPath(dirname, in.rnd)
        std == IsStandardPackage(imp)
        id  == Len(st.pkgs) + 1
        p   == [NewPackage(imp, files, <<>>) EXCEPT
                   !.Dupe = std, !.HasInit = AnyInit(files)]
    IN  IF imp = ReservedMain
        THEN [st EXCEPT !.err = "top-level main package is forbidden"]
        ELSE IF std /\ imp \notin AllowedDupes(in.pkgDupes)
        THEN [st EXCEPT !.err = "same name as a standard package"]
        ELSE [st EXCEPT !.app = Register(@, id, imp, p.HasInit),
                        !.pkgs = Append(@, p)]

\* the import paths lines 250-251 visit for one package, in order
RECURSIVE Flatten(_)
Flatten(files) ==
    IF files = <<>> THEN <<>>
    ELSE Head(files).ImportPaths \o Flatten(Tail(files))

ImportsOf(arena, id) == Flatten(arena[id].Files)

\* lines 248-251: the position (package i, its k-th import) the loops reach
\* next, from (i, k) on; i beyond the list when they are over
RECURSIVE NextImport(_, _, _, _)
NextImport(a, arena, i, k) ==
    IF i > Len(a.Packages) THEN [i |-> i, k |-> 1]
    ELSE IF k > Len(ImportsOf(arena, a.Packages[i]))
         THEN NextImport(a, arena, i + 1, 1)
         ELSE [i |-> i, k |-> k]

\* line 252
Skips(a, path) == IsStandardPackage(path) \/ path \in DOMAIN a.PackageIndex

\* lines 269-275
ExternalFile(f, found) ==
    [Name |-> f, PackageName |-> <<"p">>, ImportPaths |-> found.Imports,
     HasInit |-> FALSE]

\* lines 264-276
KeptFiles(flag, path, found) ==
    LET keep == SelectSeq(found.GoFiles, LAMBDA f : ~NoBuild(flag, path, f))
    IN  [k \in 1..Len(keep) |-> ExternalFile(keep[k], found)]

\* lines 252-286 without the test of line 277
ResolveStepMut(st, path, answer, in) ==
    IF Skips(st.app, path) THEN st
    ELSE IF ~answer.found THEN [st EXCEPT !.warned = @ \cup {path}]
    ELSE LET files == KeptFiles(in.noBuildFiles, path, answer)
             id == Len(st.pkgs) + 1
         IN  [st EXCEPT !.app = Register(@, id, path, FALSE),
                        !.pkgs = Append(@, NewPackage(path, files, GopathDir(path)))]

\* lines 252-286 for one import path; answer is what gopathPackage returns
ResolveStep(st, path, answer, in) ==
    IF Skips(st.app, path) THEN st
    ELSE IF ~answer.found THEN [st EXCEPT !.warned = @ \cup {path}]
    ELSE LET files == KeptFiles(in.noBuildFiles, path, answer)
             id == Len(st.pkgs) + 1
         IN  IF Len(files) = 0
             THEN [st EXCEPT !.err = "all its files were excluded by nobuild_files"]
             ELSE [st EXCEPT !.app = Register(@, id, path, FALSE),
                             !.pkgs = Append(@, NewPackage(path, files, GopathDir(path)))]

\* lines 217-235 with one entry per import of a file, in the order of the
\* files: no set of paths and no sort
PopulateDependenciesMut(a, arena) ==
    [id \in DOMAIN arena |->
        IF id \in Range(a.Packages)
        THEN [arena[id] EXCEPT !.Dependencies =
                LET known == SelectSeq(ImportsOf(arena, id),
                                       LAMBDA q : q \in DOMAIN a.PackageIndex)
                IN  [k \in 1..Len(known) |-> a.PackageIndex[known[k]]]]
        ELSE arena[id]]

\* lines 217-235: the dependency lists of all packages
PopulateDependencies(a, arena) ==
    [id \in DOMAIN arena |->
        IF id \in Range(a.Packages)
        THEN [arena[id] EXCEPT !.Dependencies =
                SortByImportPath(arena,
                    {a.PackageIndex[q] :
                        q \in Range(ImportsOf(arena, id)) \cap DOMAIN a.PackageIndex})]
        ELSE arena[id]]

-----------------------------------------------------------------------------
(* What the environment of Spec may hold: files, flags, GOPATH, rng. *)

FileNames == << <<"w", ".", "g", "o">>, <<"x", ".", "g", "o">>,
                <<"y", ".", "g", "o">>, <<"z", ".", "g", "o">> >>

PkgA == <<"a">>
PkgB == <<"b">>
PkgC == <<"c">>
PkgFmt == <<"f", "m", "t">>
PkgMain42 == <<"m", "a", "i", "n", "0", "0", "0", "4", "2">>

\* the directories source files may lie in: filepath.Dir of the file names,
\* the last one that of "/w.go"
LocalDirs == <<Dot, PkgA, PkgFmt, ReservedMain, PkgMain42, Slash>>

\* all of them but the root
AppDirs == 1..(Len(LocalDirs) - 1)

\* what a source file may import
ImportLists ==
    {<<>>} \cup {<<q>> : q \in {PkgA, PkgB, PkgC, PkgFmt, ReservedMain, PkgMain42}}

\* source files that go wrong: a.go at the root of the file system; in
\* directory a a file the build constraints exclude, one that makes
\* ImportDir fail, one parser.ParseFile rejects; at the top level a file
\* importing "unsafe" and one with the literal fmt.T{1}
BadShapes ==
    { [dir |-> 6, imports |-> <<>>, hasInit |-> FALSE, kind |-> "go"],
      [dir |-> 2, imports |-> <<>>, hasInit |-> FALSE, kind |-> "ignored"],
      [dir |-> 2, imports |-> <<>>, hasInit |-> FALSE, kind |-> "broken"],
      [dir |-> 2, imports |-> <<>>, hasInit |-> FALSE, kind |-> "syntax"],
      [dir |-> 1, imports |-> <<Unsafe>>, hasInit |-> FALSE, kind |-> "go"],
      [dir |-> 1, imports |-> <<PkgFmt>>, hasInit |-> TRUE, kind |-> "untagged"] }

\* what one source file may be: where it lies, what it imports, whether it
\* declares an init function, and what is special about it
FileShapes ==
    [dir : AppDirs, imports : ImportLists, hasInit : BOOLEAN, kind : {"go"}]
        \cup BadShapes

\* what a package found under GOPATH may hold: pkg.GoFiles and pkg.Imports
GopathFiles(path) ==
    IF path = PkgB
    THEN {<<FileNames[2]>>, <<FileNames[2], FileNames[3]>>}
    ELSE {<<FileNames[2]>>}

GopathImports(path) ==
    IF path = PkgB THEN {<<>>, <<PkgA>>, <<PkgC>>}
    ELSE IF path = PkgC THEN {<<>>, <<PkgB>>}
    ELSE {<<>>}

\* results of rng.Intn(1e5)
RndPool == {7, 42}

\* values of the flag -nobuild_files
NoBuildFlags == {<<>>, <<"x", ".", "g", "o", "$">>, <<"(">>}

\* values of the flag -pkg_dupes
PkgDupesFlags == {<<>>, <<"a", ",", "f", "m", "t">>}

-----------------------------------------------------------------------------
(* ParseFiles as steps. *)

State == [app |-> app, pkgs |-> pkgs, warned |-> warned, err |-> NIL]

\* a return of the app together with the error
FailMut(msg) == [ok |-> TRUE, err |-> msg, paths |-> <<>>]

Fail(msg) == [ok |-> FALSE, err |-> msg, paths |-> <<>>]

SortFrame == UNCHANGED <<p0, lo, selected, cycle>>

ParseFileFrame == UNCHANGED pf

\* lines 131-138: the directories of the file names
ScanFilenames ==
    /\ pc = "dirs"
    /\ IF \E dir \in DOMAIN input.src : dir = <<>> \/ dir = Slash
       THEN /\ pc' = "done"
            /\ ret' = Fail("bad filename")
            /\ todo' = todo
       ELSE /\ pc' = "parse"
            /\ ret' = ret
            /\ todo' = DOMAIN input.src
    /\ UNCHANGED <<input, gopath, pkgs, pkgFiles, app, cur, warned>>
    /\ SortFrame
    /\ ParseFileFrame

\* ctxt.ImportDir on the files of a directory: an error, or pkg.GoFiles,
\* the files the build constraints keep; none of them is NoGoError
ImportDir(dirfiles) ==
    LET gofiles == SelectSeq(dirfiles, LAMBDA f : f.build # "ignored")
    IN  IF \E k \in 1..Len(dirfiles) : dirfiles[k].build = "broken"
        THEN [err |-> "failed parsing dir", nogo |-> FALSE, GoFiles |-> <<>>]
        ELSE [err |-> NIL, nogo |-> gofiles = <<>>, GoFiles |-> gofiles]

\* lines 149-157: the files parsed before the first error, and that error
RECURSIVE ParseAll(_, _, _, _)
ParseAll(dir, gofiles, k, acc) ==
    IF k > Len(gofiles) THEN [files |-> acc, err |-> NIL]
    ELSE LET r == ParseFile(JoinPath(dir, gofiles[k].name), gofiles[k].src)
         IN  IF r.err # NIL THEN [files |-> acc, err |-> r.err]
             ELSE ParseAll(dir, gofiles, k + 1, acc \o r.files)

\* where ParseFiles goes once the packages of st are complete up to the
\* resolver's position c: lines 202-214, then line 216
AfterStep(st, c) ==
    IF st.err # NIL \/ NoBuildError(input) # NIL THEN "done"
    ELSE IF input.goPath /\ c.i <= Len(st.app.Packages) THEN "resolve"
    ELSE "deps"

\* what ParseFiles has returned by then: the error of st, or that of line 208
AfterRet(st) ==
    IF st.err # NIL THEN Fail(st.err)
    ELSE IF NoBuildError(input) # NIL THEN Fail(NoBuildError(input))
    ELSE ret

\* lines 139-158: the range over dirs reaches dir, in any order
ParseDir ==
    /\ pc = "parse"
    /\ \E dir \in todo :
          LET pkg == ImportDir(input.src[dir])
              r == ParseAll(dir, pkg.GoFiles, 1, <<>>)
              last == todo = {dir}
          IN  IF pkg.err # NIL
              THEN /\ pc' = "done"
                   /\ ret' = Fail(pkg.err)
                   /\ UNCHANGED <<app, pkgFiles, todo>>
              ELSE IF pkg.nogo
              THEN /\ pc' = IF ~last THEN "parse"
                             ELSE IF DOMAIN pkgFiles = {} THEN AfterStep(State, cur)
                             ELSE "create"
                   /\ ret' = IF last /\ DOMAIN pkgFiles = {}
                              THEN AfterRet(State) ELSE ret
                   /\ todo' = IF last THEN DOMAIN pkgFiles ELSE todo \ {dir}
                   /\ UNCHANGED <<app, pkgFiles>>
              ELSE IF r.err # NIL
              THEN /\ pc' = "done"
                   /\ ret' = Fail(r.err)
                   /\ app' = AddFiles(app, r.files)
                   /\ pkgFiles' = IF r.files = <<>> THEN pkgFiles
                                   ELSE MapPut(pkgFiles, dir, r.files)
                   /\ todo' = todo
              ELSE /\ pc' = IF last THEN "create" ELSE "parse"
                   /\ app' = AddFiles(app, r.files)
                   /\ pkgFiles' = MapPut(pkgFiles, dir, r.files)
                   /\ todo' = IF last THEN DOMAIN pkgFiles' ELSE todo \ {dir}
                   /\ ret' = ret
    /\ UNCHANGED <<input, gopath, pkgs, cur, warned>>
    /\ SortFrame
    /\ ParseFileFrame

\* lines 168-200: the range over pkgFiles reaches dirname, in any order
CreatePackage ==
    /\ pc = "create"
    /\ \E dirname \in todo :
          LET st == CreatePackageStep(State, dirname, pkgFiles[dirname], input)
              c  == NextImport(st.app, st.pkgs, 1, 1)
          IN  /\ app' = st.app
              /\ pkgs' = st.pkgs
              /\ todo' = todo \ {dirname}
              /\ IF st.err # NIL
                 THEN /\ pc' = "done"
                      /\ ret' = Fail(st.err)
                      /\ cur' = cur
                 ELSE IF todo # {dirname}
                 THEN /\ pc' = "create"
                      /\ UNCHANGED <<ret, cur>>
                 ELSE /\ pc' = AfterStep(st, c)
                      /\ cur' = c
                      /\ ret' = AfterRet(st)
    /\ UNCHANGED <<input, gopath, pkgFiles, warned>>
    /\ SortFrame
    /\ ParseFileFrame

\* what gopathPackage may answer for path: what it answered before, or
\* nothing found, or one of the packages GOPATH may hold under path
Answers(path) ==
    IF path \in DOMAIN gopath THEN {gopath[path]}
    ELSE {NotFound} \cup
         [found : {TRUE}, GoFiles : GopathFiles(path), Imports : GopathImports(path)]

\* lines 249-287: one import path of package i in addFromGOPATH
ResolveImport ==
    /\ pc = "resolve"
    /\ LET path == ImportsOf(pkgs, app.Packages[cur.i])[cur.k]
       IN  IF Skips(app, path)
           THEN LET c == NextImport(app, pkgs, cur.i, cur.k + 1)
                IN  /\ cur' = c
                    /\ pc' = AfterStep(State, c)
                    /\ ret' = AfterRet(State)
                    /\ UNCHANGED <<app, pkgs, warned, gopath>>
           ELSE \E answer \in Answers(path) :
                  LET st == ResolveStep(State, path, answer, input)
                      c  == NextImport(st.app, st.pkgs, cur.i, cur.k + 1)
                  IN  /\ gopath' = MapPut(gopath, path, answer)
                      /\ app' = st.app
                      /\ pkgs' = st.pkgs
                      /\ warned' = st.warned
                      /\ cur' = c
                      /\ pc' = AfterStep(st, c)
                      /\ ret' = AfterRet(st)
    /\ UNCHANGED <<input, pkgFiles, todo>>
    /\ SortFrame
    /\ ParseFileFrame

\* lines 217-238: the dependency lists; topologicalSort is entered
BuildGraph ==
    /\ pc = "deps"
    /\ pkgs' = PopulateDependencies(app, pkgs)
    /\ pc' = "sort"
    /\ p0' = app.Packages
    /\ lo' = 0
    /\ selected' = {}
    /\ cycle' = <<>>
    /\ UNCHANGED <<input, gopath, pkgFiles, app, todo, cur, warned, ret>>
    /\ ParseFileFrame

Next ==
    \/ ScanFilenames
    \/ ParseDir
    \/ CreatePackage
    \/ ResolveImport
    \/ BuildGraph
    \/ SortReturn
    \/ SortRound
    \/ SortStuck
    \/ CycleExtend
    \/ CycleFound

-----------------------------------------------------------------------------
(* Spec: ParseFiles on every app of at most MaxFiles source files. *)

\* the literal fmt.T{1}
UntaggedLit == [x |-> PkgFmt, sel |-> <<"T">>, elts |-> <<FALSE>>]

\* the k-th source file of its directory: its name, what the build
\* constraints and ImportDir make of it, and its declarations
LocalFile(dir, k, shape) ==
    [name |-> FileNames[k],
     build |-> IF shape.kind \in {"ignored", "broken"} THEN shape.kind ELSE "go",
     src |-> [pkgName |-> <<"p">>,
              syntax |-> shape.kind = "syntax",
              imports |-> [j \in 1..Len(shape.imports) |->
                              [name |-> NoName, value |-> Quote(shape.imports[j])]],
              funcs |-> IF shape.hasInit THEN <<InitFunc>> ELSE <<>>,
              lits |-> IF shape.kind = "untagged" THEN <<UntaggedLit>> ELSE <<>>]]

\* the source files of every directory, in the order ImportDir lists them
SourceOf(fs) ==
    [dir \in {LocalDirs[fs[k].dir] : k \in DOMAIN fs} |->
        LET mine == SelectSeq([k \in DOMAIN fs |-> k],
                              LAMBDA k : LocalDirs[fs[k].dir] = dir)
        IN  [j \in 1..Len(mine) |-> LocalFile(dir, j, fs[mine[j]])]]

\* rng is drawn only for a top-level directory (line 170); without one the
\* field rnd is never read
Init ==
    \E nf \in 1..MaxFiles :
      \E fs \in [1..nf -> FileShapes] :
        /\ \A k \in 1..(nf - 1) : fs[k].dir <= fs[k + 1].dir
        /\ \E gp \in BOOLEAN :
             \E nb \in (IF gp THEN NoBuildFlags ELSE {<<>>, <<"(">>}) :
               \E dupes \in (IF \E k \in 1..nf : LocalDirs[fs[k].dir] = PkgFmt
                             THEN PkgDupesFlags ELSE {<<>>}) :
                 \E rnd \in (IF \E k \in 1..nf : LocalDirs[fs[k].dir] = Dot
                             THEN RndPool ELSE {7}) :
                   input = [goPath |-> gp, noBuildFiles |-> nb,
                            pkgDupes |-> dupes, rnd |-> rnd,
                            src |-> SourceOf(fs)]
        /\ todo = {}
        /\ gopath = EmptyMap
        /\ pkgFiles = EmptyMap
        /\ pkgs = <<>>
        /\ app = EmptyApp
        /\ pc = "dirs"
        /\ cur = [i |-> 1, k |-> 1]
        /\ warned = {}
        /\ p0 = <<>>
        /\ lo = 0
        /\ selected = {}
        /\ cycle = <<>>
        /\ ret = [ok |-> FALSE, err |-> NIL, paths |-> <<>>]
        /\ pf = PfIdle

Spec == Init /\ [][Next]_vars

-----------------------------------------------------------------------------
(* ParseFileSpec: checkImport on one path, or parseFile on one source file *)
(* of at most MaxImports imports and MaxLits composite literals.           *)

\* ImportSpecs of a source file handed to parseFile (ParseFileSpec)
MaxImports == 2
\* composite literals of such a file (ParseFileSpec)
MaxLits == 2

PkgDatastore ==
    <<"a", "p", "p", "e", "n", "g", "i", "n", "e", "/", "d", "a", "t", "a",
      "s", "t", "o", "r", "e">>

\* a string of n letters
Letters(n) == [k \in 1..n |-> "a"]

\* arguments of checkImport
ImportPathPool ==
    { <<>>, PkgA, PkgFmt, PkgDatastore, Dot, <<"a", "/", "b">>, <<"a", ".", "b", "/", "c", "_", "D", "-", "9", "~">>,
      Letters(MaxImportPathLen), Letters(MaxImportPathLen + 1),
      <<"/", "a">>, <<"a", "/", ".", ".", "/", "b">>, DotDot, <<"a", ".", ".", "b">>, <<"a", "+", "b">>, <<"a", " ", "b">>,
      Syscall, Unsafe, <<"u", "n", "s", "a", "f", "e", "/", "x">>, <<"s", "y", "s", "c", "a", "l", "l", "s">> }

\* import "fmt"; import f "fmt"; import . "fmt"; import "appengine/datastore";
\* import "a"; import fmt "a"; import "unsafe"
ImportSpecPool ==
    << [name |-> NoName, value |-> Quote(PkgFmt)],
       [name |-> <<"f">>, value |-> Quote(PkgFmt)],
       [name |-> Dot, value |-> Quote(PkgFmt)],
       [name |-> NoName, value |-> Quote(PkgDatastore)],
       [name |-> NoName, value |-> Quote(PkgA)],
       [name |-> PkgFmt, value |-> Quote(PkgA)],
       [name |-> NoName, value |-> Quote(Unsafe)] >>

\* fmt.T{1}; fmt.T{a: 1}; fmt.T{a: 1, 2}; fmt.T{}; f.T{1};
\* datastore.PropertyList{1}; datastore.Key{1}; T{1}
LitPool ==
    << [x |-> PkgFmt, sel |-> <<"T">>, elts |-> <<FALSE>>],
       [x |-> PkgFmt, sel |-> <<"T">>, elts |-> <<TRUE>>],
       [x |-> PkgFmt, sel |-> <<"T">>, elts |-> <<TRUE, FALSE>>],
       [x |-> PkgFmt, sel |-> <<"T">>, elts |-> <<>>],
       [x |-> <<"f">>, sel |-> <<"T">>, elts |-> <<FALSE>>],
       [x |-> <<"d", "a", "t", "a", "s", "t", "o", "r", "e">>,
        sel |-> <<"P", "r", "o", "p", "e", "r", "t", "y", "L", "i", "s", "t">>,
        elts |-> <<FALSE>>],
       [x |-> <<"d", "a", "t", "a", "s", "t", "o", "r", "e">>,
        sel |-> <<"K", "e", "y">>, elts |-> <<FALSE>>],
       [x |-> NoName, sel |-> <<>>, elts |-> <<FALSE>>] >>

\* no function; func init(); func (r T) init(); func init(x int);
\* func main() and func init()
FuncLists ==
    { <<>>, <<InitFunc>>, <<[InitFunc EXCEPT !.recv = TRUE]>>,
      <<[InitFunc EXCEPT !.params = 1]>>,
      <<[InitFunc EXCEPT !.name = ReservedMain], InitFunc>> }

\* the source file with the imports is and the literals ls of the pools
\* and the function declarations fs
Source(is, ls, fs) ==
    [EmptySource EXCEPT
        !.imports = [k \in DOMAIN is |-> ImportSpecPool[is[k]]],
        !.lits = [k \in DOMAIN ls |-> LitPool[ls[k]]],
        !.funcs = fs]

\* ParseFiles and topologicalSort not entered
ParseFilesIdle ==
    /\ input = <<>>
    /\ gopath = EmptyMap
    /\ pkgFiles = EmptyMap
    /\ pkgs = <<>>
    /\ app = EmptyApp
    /\ todo = {}
    /\ cur = [i |-> 1, k |-> 1]
    /\ warned = {}
    /\ p0 = <<>>
    /\ lo = 0
    /\ selected = {}
    /\ cycle = <<>>
    /\ ret = [ok |-> FALSE, err |-> NIL, paths |-> <<>>]

ParseFilesFrame ==
    UNCHANGED <<input, gopath, pkgs, pkgFiles, app, todo, cur, warned, p0, lo,
                selected, cycle, ret>>

\* checkImport on a path of the pool, or parseFile on a file the parser
\* rejects or on a file of the pools: every list of imports, the literals
\* in the order of their pool, function declarations varied on small files
ParseFileInit ==
    /\ ParseFilesIdle
    /\ \/ /\ pc = "checkImport"
          /\ \E arg \in ImportPathPool : pf = [PfIdle EXCEPT !.arg = arg]
       \/ /\ pc = "parseFile"
          /\ \/ pf = [PfIdle EXCEPT !.src = [EmptySource EXCEPT !.syntax = TRUE],
                                     !.filename = FileNames[1]]
             \/ \E ni \in 0..MaxImports, nl \in 0..MaxLits :
                  \E is \in [1..ni -> 1..Len(ImportSpecPool)],
                     ls \in [1..nl -> 1..Len(LitPool)] :
                    /\ \A k \in 1..(nl - 1) : ls[k] <= ls[k + 1]
                    /\ \E fs \in (IF ni + nl <= 1 THEN FuncLists ELSE {<<>>}) :
                          pf = [PfIdle EXCEPT !.src = Source(is, ls, fs),
                                              !.filename = FileNames[1]]

\* lines 352-369: checkImport(arg)
CheckImportCall ==
    /\ pc = "checkImport"
    /\ pf' = [pf EXCEPT !.accepted = CheckImport(pf.arg)]
    /\ pc' = "checked"
    /\ ParseFilesFrame

\* lines 303-306: parser.ParseFile
PfSyntax ==
    /\ pc = "parseFile"
    /\ IF pf.src.syntax
       THEN /\ pf' = [pf EXCEPT !.err = "syntax"]
            /\ pc' = "parsed"
       ELSE /\ pf' = pf
            /\ pc' = IF Len(pf.src.imports) = 0 THEN "walk" ELSE "decls"
    /\ ParseFilesFrame

\* lines 314-325: one ImportSpec
PfImport ==
    /\ pc = "decls"
    /\ LET r == ImportStep(pf.src.imports[pf.k])
       IN  IF r.err # NIL
           THEN /\ pf' = [pf EXCEPT !.err = r.err]
                /\ pc' = "parsed"
           ELSE /\ pf' = [pf EXCEPT !.imports = Append(@, r.path), !.k = @ + 1]
                /\ pc' = IF pf.k = Len(pf.src.imports) THEN "walk" ELSE "decls"
    /\ ParseFilesFrame

\* lines 392-408: ast.Walk reaches an ImportSpec
PfVisitImport ==
    /\ pc = "walk"
    /\ pf.n <= Len(pf.src.imports)
    /\ pf' = [pf EXCEPT !.tracked = VisitImportSpec(@, pf.src.imports[pf.n]),
                        !.n = @ + 1]
    /\ pc' = "walk"
    /\ ParseFilesFrame

\* lines 410-442: ast.Walk reaches a CompositeLit
PfVisitLit ==
    /\ pc = "walk"
    /\ pf.n > Len(pf.src.imports)
    /\ pf.n <= Len(pf.src.imports) + Len(pf.src.lits)
    /\ LET lit == pf.src.lits[pf.n - Len(pf.src.imports)]
       IN  pf' = [pf EXCEPT !.errors = IF Flagged(pf.tracked, lit)
                                       THEN Append(@, LitError(pf.tracked, lit))
                                       ELSE @,
                            !.n = @ + 1]
    /\ pc' = "walk"
    /\ ParseFilesFrame

\* lines 337-346: the walk is over
PfReturn ==
    /\ pc = "walk"
    /\ pf.n > Len(pf.src.imports) + Len(pf.src.lits)
    /\ pf' = IF Len(pf.errors) > 0
             THEN [pf EXCEPT !.err = "untagged fields"]
             ELSE [pf EXCEPT !.files =
                      <<[Name |-> pf.filename, PackageName |-> pf.src.pkgName,
                         ImportPaths |-> pf.imports,
                         HasInit |-> \E k \in 1..Len(pf.src.funcs) :
                                         IsInit(pf.src.funcs[k])]>>]
    /\ pc' = "parsed"
    /\ ParseFilesFrame

ParseFileNext ==
    \/ CheckImportCall
    \/ PfSyntax
    \/ PfImport
    \/ PfVisitImport
    \/ PfVisitLit
    \/ PfReturn

ParseFileSpec == ParseFileInit /\ [][ParseFileNext]_vars

-----------------------------------------------------------------------------
(* The dependency graph, read off the arena independently of the sort. *)

DepSet(arena, id) == Range(DepsOf(arena, id))

\* packages of S reachable from the packages of acc along dependencies in S
RECURSIVE Closure(_, _, _)
Closure(arena, S, acc) ==
    LET nxt == acc \cup {y \in S : \E x \in acc : y \in DepSet(arena, x)}
    IN  IF nxt = acc THEN acc ELSE Closure(arena, S, nxt)

\* packages of S reachable from x in one step or more, inside S
ReachIn(arena, S, x) == Closure(arena, S, DepSet(arena, x) \cap S)

\* the dependency graph over S has a directed cycle (a self-import is one)
HasCycle(arena, S) == \E x \in S : x \in ReachIn(arena, S, x)

\* every dependency of list[i] is at an index smaller than i
DepFirst(arena, list) ==
    \A i \in 1..Len(list) :
        \A d \in DepSet(arena, list[i]) :
            \E j \in 1..(i - 1) : list[j] = d

\* every dependency list ascends strictly by import path
DepsSorted(arena) ==
    \A id \in DOMAIN arena :
        \A k \in 1..(Len(DepsOf(arena, id)) - 1) :
            StrLess(PathOf(arena, DepsOf(arena, id)[k]),
                    PathOf(arena, DepsOf(arena, id)[k + 1]))

UniquePaths(arena, list) ==
    \A i, j \in 1..Len(list) :
        PathOf(arena, list[i]) = PathOf(arena, list[j]) => i = j

PathsOf(arena, list) == [k \in 1..Len(list) |-> PathOf(arena, list[k])]

Failed == pc = "done" /\ ret.err = "cyclic"

-----------------------------------------------------------------------------
(* Claims about topologicalSort and findCycle, under SortSpec. *)

\* C1: on an acyclic graph whose dependencies are all in the list, whatever
\* the initial order, topologicalSort returns nil and every dependency of
\* every package ends at a strictly smaller index than the package.
C1_DependenciesFirst ==
    (pc = "done" /\ ~HasCycle(pkgs, Range(p0)))
        => /\ ret.ok
           /\ ret.err = NIL
           /\ DepFirst(pkgs, app.Packages)

\* x, y imports x, z imports y, handed over as [z, y, x], comes out [x, y, z]
C1_Witness ==
    /\ pc = "done"
    /\ Len(p0) = 3
    /\ PathsOf(pkgs, p0) = << <<"b">>, <<"a", "b">>, <<"a">> >>
    /\ DepsOf(pkgs, 1) = <<>>
    /\ DepsOf(pkgs, 2) = <<1>>
    /\ DepsOf(pkgs, 3) = <<2>>
    /\ ret.ok
    /\ PathsOf(pkgs, app.Packages) = << <<"a">>, <<"a", "b">>, <<"b">> >>

\* C2 as claimed: topologicalSort returns the cyclic-dependency error exactly
\* when the graph has a directed cycle, and a round selects nothing exactly
\* when a cycle exists among the remaining packages.
C2_RoundStuckIffCycle ==
    /\ pc = "done" => (ret.err = "cyclic" <=> HasCycle(pkgs, Range(p0)))
    /\ (pc = "sort" /\ lo < Len(app.Packages)) =>
          (Sweep(pkgs, app.Packages, lo, selected).n = 0
              <=> HasCycle(pkgs, Range(Remaining)))

\* C2 as amended: topologicalSort returns the cyclic-dependency error exactly
\* when the graph has a directed cycle (a self-import is one), and nil exactly
\* when it has none. A round selects nothing exactly when every remaining
\* package depends on a remaining package; then a cycle exists among the
\* remaining packages, so this never happens on an acyclic graph. A round
\* that meets a cycle among the remaining packages may still select others.
C2_ErrorIffCycle ==
    /\ pc = "done" => (ret.err = "cyclic" <=> HasCycle(pkgs, Range(p0)))
    /\ pc = "done" => (ret.ok <=> ~HasCycle(pkgs, Range(p0)))
    /\ (pc = "sort" /\ lo < Len(app.Packages)) =>
          /\ Sweep(pkgs, app.Packages, lo, selected).n = 0
                <=> \A x \in Range(Remaining) :
                        DepSet(pkgs, x) \cap Range(Remaining) # {}
          /\ Sweep(pkgs, app.Packages, lo, selected).n = 0
                => HasCycle(pkgs, Range(Remaining))
    /\ pc \in {"findCycle", "panic"} =>
          /\ HasCycle(pkgs, Range(Remaining))
          /\ \A x \in Range(Remaining) : ~DepsSelected(pkgs, selected, x)
    /\ ~HasCycle(pkgs, Range(p0)) => pc \in {"sort", "done"}

\* C2 witness: a package that imports itself next to one that sorts; the first
\* round selected the latter, the second selected nothing, the error is returned
C2_Witness ==
    /\ Failed
    /\ Len(p0) = 2
    /\ lo = 1
    /\ \E x \in Range(p0) : DepSet(pkgs, x) = {x}
    /\ \E x \in Range(p0) : DepSet(pkgs, x) = {}

\* C3: the reported path is a closed cycle: its packages are unselected ones,
\* none occurs twice, each is followed by one of its direct dependencies, the
\* last one depends directly on the first, and the first path ends the report.
C3_GenuineCycle ==
    Failed =>
        /\ Len(cycle) >= 1
        /\ \A k \in 1..Len(cycle) :
              /\ cycle[k] \in Range(Remaining)
              /\ cycle[k] \notin selected
        /\ \A j, k \in 1..Len(cycle) : cycle[j] = cycle[k] => j = k
        /\ \A k \in 1..(Len(cycle) - 1) : cycle[k + 1] \in DepSet(pkgs, cycle[k])
        /\ cycle[1] \in DepSet(pkgs, cycle[Len(cycle)])
        /\ Len(ret.paths) = Len(cycle) + 1
        /\ \A k \in 1..Len(cycle) : ret.paths[k] = PathOf(pkgs, cycle[k])
        /\ ret.paths[Len(ret.paths)] = ret.paths[1]

\* the walk left the start behind: a two-package cycle reported out of three
\* stuck packages
C3_Witness ==
    /\ Failed
    /\ Len(Remaining) = 3
    /\ Len(cycle) = 2
    /\ cycle[1] # FindMin(pkgs, Remaining)

\* C4 as claimed: whenever the sort fails, the first import path of the
\* report is the smallest import path among the packages left unselected.
C4_StartIsSmallestRemaining ==
    Failed =>
        /\ \E x \in Range(Remaining) : ret.paths[1] = PathOf(pkgs, x)
        /\ \A x \in Range(Remaining) : ~StrLess(PathOf(pkgs, x), ret.paths[1])

\* C5: with unique import paths and every dependency list sorted by import
\* path, the reported cycle path is the same for every initial order of the
\* package list.  SortSpec starts from every order of every list, and the
\* report of each run equals the report for the same packages handed over in
\* ascending order of import path; so the reports of any two orders agree.
C5_CycleReportDeterministic ==
    (Failed /\ DepsSorted(pkgs) /\ UniquePaths(pkgs, p0)) =>
        LET r == TopologicalSort(pkgs, SortByImportPath(pkgs, Range(p0)))
        IN  r.err = "cyclic" /\ r.paths = ret.paths

\* three packages in a non-ascending initial order, one with two sorted
\* dependencies, and a report that does not start at the smallest path
C5_Witness ==
    /\ Failed
    /\ DepsSorted(pkgs)
    /\ Len(p0) = 3
    /\ PathsOf(pkgs, p0) = << <<"b">>, <<"a">>, <<"a", "b">> >>
    /\ \E x \in Range(p0) : Len(DepsOf(pkgs, x)) = 2
    /\ ret.paths[1] # <<"a">>

\* C7: a list already in dependency-first order is returned with nil and in
\* exactly the input order; so sorting the result of a successful sort again
\* changes nothing.
C7_OrderedInputUnchanged ==
    /\ (pc = "done" /\ DepFirst(pkgs, p0)) =>
          /\ ret.ok
          /\ ret.err = NIL
          /\ app.Packages = p0
    /\ (pc = "done" /\ ret.ok) =>
          LET r == TopologicalSort(pkgs, app.Packages)
          IN  r.err = NIL /\ r.list = app.Packages

\* an ordered list of three with a package that has two dependencies
C7_Witness ==
    /\ pc = "done"
    /\ Len(p0) = 3
    /\ DepFirst(pkgs, p0)
    /\ \E x \in Range(p0) : Len(DepsOf(pkgs, x)) = 2
    /\ p0 # <<1, 2, 3>>
    /\ app.Packages = p0

-----------------------------------------------------------------------------
(* ParseFiles as one function of the order in which the range over         *)
(* pkgFiles visits the directories, on the input and the GOPATH answers of *)
(* the run.                                                                *)

\* strings in ascending order
RECURSIVE SortStrings(_)
SortStrings(S) ==
    IF S = {} THEN <<>>
    ELSE LET m == CHOOSE x \in S : \A y \in S \ {x} : StrLess(x, y)
         IN  <<m>> \o SortStrings(S \ {m})

RECURSIVE CreateAll(_, _, _)
CreateAll(st, dirs, k) ==
    IF k > Len(dirs) \/ st.err # NIL THEN st
    ELSE CreateAll(CreatePackageStep(st, dirs[k], pkgFiles[dirs[k]], input),
                   dirs, k + 1)

RECURSIVE ResolveAll(_, _)
ResolveAll(st, c) ==
    IF st.err # NIL \/ c.i > Len(st.app.Packages) THEN st
    ELSE LET path == ImportsOf(st.pkgs, st.app.Packages[c.i])[c.k]
             answer == IF path \in DOMAIN gopath THEN gopath[path] ELSE NotFound
             nxt == ResolveStep(st, path, answer, input)
         IN  ResolveAll(nxt, NextImport(nxt.app, nxt.pkgs, c.i, c.k + 1))

ParseFilesIn(dirs) ==
    LET s0 == [app |-> EmptyApp, pkgs |-> <<>>, warned |-> {}, err |-> NIL]
        s1 == CreateAll(s0, dirs, 1)
        s2 == IF s1.err # NIL THEN s1
              ELSE IF NoBuildError(input) # NIL
              THEN [s1 EXCEPT !.err = NoBuildError(input)]
              ELSE IF input.goPath
              THEN ResolveAll(s1, NextImport(s1.app, s1.pkgs, 1, 1))
              ELSE s1
    IN  IF s2.err # NIL
        THEN [ok |-> FALSE, err |-> s2.err, order |-> <<>>]
        ELSE LET arena == PopulateDependencies(s2.app, s2.pkgs)
                 r == TopologicalSort(arena, s2.app.Packages)
             IN  [ok |-> r.err = NIL, err |-> r.err,
                  order |-> PathsOf(arena, r.list)]

Returned == pc = "done" /\ ret.ok

\* addFromGOPATH returned nil at line 211
ResolverReturned ==
    /\ input.goPath
    /\ \/ pc \in {"deps", "sort", "findCycle"}
       \/ pc = "done" /\ ret.err \in {NIL, "cyclic"}

\* GOPATH is known where gopathPackage was asked; a path it was never asked
\* for may be in it
MayBeInGopath(path) == path \notin DOMAIN gopath \/ gopath[path].found

ListEntries(path) ==
    {j \in 1..Len(app.Packages) : PathOf(pkgs, app.Packages[j]) = path}

-----------------------------------------------------------------------------
(* Claims about ParseFiles, under Spec. *)

\* C6 as claimed: for the same packages and edges the final package order is
\* the same whatever order the range over pkgFiles takes; so it is the order
\* of the run that visits the directories in ascending order.
C6_BuildOrderDeterministic ==
    Returned =>
        LET r == ParseFilesIn(SortStrings(DOMAIN pkgFiles))
        IN  r.ok /\ r.order = PathsOf(pkgs, app.Packages)

\* C8 as claimed: once the resolver has returned nil, every import path that
\* a file of a listed package refers to, that is not standard and is in
\* GOPATH, is one list entry and one index entry; in a returned app each such
\* import is a dependency edge and the dependency comes first.
C8_ImportsRegisteredOnce ==
    /\ ResolverReturned =>
          \A id \in Range(app.Packages) :
            \A path \in Range(ImportsOf(pkgs, id)) :
              (~IsStandardPackage(path) /\ MayBeInGopath(path)) =>
                  /\ Cardinality(ListEntries(path)) = 1
                  /\ path \in DOMAIN app.PackageIndex
                  /\ app.PackageIndex[path] \in Range(app.Packages)
                  /\ PathOf(pkgs, app.PackageIndex[path]) = path
    /\ (Returned /\ input.goPath) =>
          /\ DepFirst(pkgs, app.Packages)
          /\ \A id \in Range(app.Packages) :
               \A path \in Range(ImportsOf(pkgs, id)) :
                 (~IsStandardPackage(path) /\ MayBeInGopath(path)) =>
                     app.PackageIndex[path] \in DepSet(pkgs, id)

\* C9 as claimed: no package of a returned app has the import path "main".
C9_NoMainPackage ==
    Returned =>
        \A id \in Range(app.Packages) : PathOf(pkgs, id) # ReservedMain

\* C10 as claimed: in a returned app no two listed packages share an import
\* path, and the index maps the import path of each listed package to it.
C10_ImportPathsUnique ==
    Returned =>
        /\ UniquePaths(pkgs, app.Packages)
        /\ \A id \in Range(app.Packages) :
              /\ PathOf(pkgs, id) \in DOMAIN app.PackageIndex
              /\ app.PackageIndex[PathOf(pkgs, id)] = id

\* a package resolved from GOPATH carries its directory (line 283)
External(arena, id) == arena[id].BaseDir # <<>>

\* C11: a run whose local directories include one named like a standard
\* package outside -pkg_dupes fails; in a returned app a package has Dupe
\* exactly when its import path is standard, such a package is allow-listed,
\* and no package resolved from GOPATH has Dupe.
C11_ShadowsAllowListed ==
    /\ (pc = "done" /\ \E dir \in DOMAIN pkgFiles :
            /\ IsStandardPackage(LocalImportPath(dir, input.rnd))
            /\ LocalImportPath(dir, input.rnd) \notin AllowedDupes(input.pkgDupes))
          => (~ret.ok /\ ret.err # NIL)
    /\ Returned =>
          \A id \in Range(app.Packages) :
              /\ pkgs[id].Dupe <=> IsStandardPackage(PathOf(pkgs, id))
              /\ pkgs[id].Dupe => PathOf(pkgs, id) \in AllowedDupes(input.pkgDupes)
              /\ External(pkgs, id) => ~pkgs[id].Dupe

\* C11 witness: a returned app with an allow-listed shadow of a standard
\* package next to a package resolved from GOPATH
C11_Witness ==
    /\ Returned
    /\ \E id \in Range(app.Packages) :
          pkgs[id].Dupe /\ IsStandardPackage(PathOf(pkgs, id))
    /\ \E id \in Range(app.Packages) : External(pkgs, id)

\* ParseFiles returned a nil app
NilApp == pc = "done" /\ ~ret.ok

\* C12: ParseFiles returns either a nil app with an error or an app with a
\* nil error, never both and never neither; a returned app has every
\* import that the index or GOPATH resolves as a dependency held in the
\* list, and the list is in dependency-first order.
C12_NoPartialResult ==
    /\ pc = "done" => (ret.ok <=> ret.err = NIL)
    /\ Returned =>
          /\ DepFirst(pkgs, app.Packages)
          /\ \A id \in Range(app.Packages) :
                /\ DepSet(pkgs, id) \subseteq Range(app.Packages)
                /\ \A path \in Range(ImportsOf(pkgs, id)) :
                      /\ path \in DOMAIN app.PackageIndex =>
                            app.PackageIndex[path] \in DepSet(pkgs, id)
                      /\ ( /\ input.goPath
                           /\ ~IsStandardPackage(path)
                           /\ path \in DOMAIN gopath
                           /\ gopath[path].found )
                            => path \in DOMAIN app.PackageIndex

\* C12 witness: the sort fails on a list that holds a package resolved from
\* GOPATH, and ParseFiles returns the error without the app
C12_Witness ==
    /\ NilApp
    /\ ret.err = "cyclic"
    /\ \E id \in Range(app.Packages) : External(pkgs, id)

-----------------------------------------------------------------------------
(* Claims about parseFile, checkImport and the literal checker, under     *)
(* ParseFileSpec.                                                          *)

\* the import paths C13 lists
ListedAsRejected(path) ==
    \/ path = <<>>
    \/ Len(path) > MaxImportPathLen
    \/ Len(path) >= 1 /\ path[1] = "/"
    \/ Contains(path, DotDot)
    \/ \E k \in 1..Len(path) : path[k] \notin LegalImportChars
    \/ path \in {Syscall, Unsafe}

\* the import paths the file names, in source order
WrittenImports(src) ==
    [k \in 1..Len(src.imports) |-> Unquote(src.imports[k].value).s]

\* C13: checkImport returns false exactly on the listed paths - empty,
\* longer than 1024, absolute, containing "..", holding a character outside
\* letters, digits, _ - . / ~, or equal to "syscall" or "unsafe" - and a file
\* with one such import is rejected by parseFile, which returns no File;
\* every import parseFile has recorded is outside the list.
C13_CheckImportRejectsExactly ==
    /\ pc = "checked" => (pf.accepted <=> ~ListedAsRejected(pf.arg))
    /\ \A k \in 1..Len(pf.imports) : ~ListedAsRejected(pf.imports[k])
    /\ pc = "parsed" =>
          ((\E k \in 1..Len(pf.src.imports) :
                ListedAsRejected(WrittenImports(pf.src)[k]))
              => (pf.files = <<>> /\ pf.err # NIL))

\* C13 witness: parseFile has returned on a file whose first import is
\* accepted and whose second is "unsafe": an error and no File
C13_Witness ==
    /\ pc = "parsed"
    /\ Len(pf.src.imports) = 2
    /\ ~ListedAsRejected(WrittenImports(pf.src)[1])
    /\ WrittenImports(pf.src)[2] = Unsafe
    /\ pf.files = <<>>
    /\ pf.err = "bad import"

\* what follows the last slash of a path
LastComponent(path) ==
    LET at == {k \in 1..Len(path) : path[k] = "/"}
    IN  IF at = {} THEN path
        ELSE SubSeq(path, (CHOOSE k \in at : \A j \in at : j <= k) + 1, Len(path))

\* the k-th import of the file is a standard-library import whose local
\* name is alias: its explicit name, else its last path component; a dot
\* import has none
Tracks(src, k, alias) ==
    LET name == src.imports[k].name
        path == WrittenImports(src)[k]
    IN  /\ IsStandardPackage(path)
        /\ name # Dot
        /\ alias = IF name # NoName THEN name ELSE LastComponent(path)

\* the import path alias stands for: that of the last import tracking it
TrackedPath(src, alias) ==
    LET ks == {k \in 1..Len(src.imports) : Tracks(src, k, alias)}
    IN  WrittenImports(src)[CHOOSE k \in ks : \A j \in ks : j <= k]

\* the literal is one C14 says must be reported
Offending(src, lit) ==
    /\ lit.x # NoName
    /\ \E k \in 1..Len(src.imports) : Tracks(src, k, lit.x)
    /\ TypeName(TrackedPath(src, lit.x), lit.sel) \notin UntaggedLiteralWhitelist
    /\ \E j \in 1..Len(lit.elts) : ~lit.elts[j]

OffendingLits(src) == SelectSeq(src.lits, LAMBDA lit : Offending(src, lit))

\* parseFile returned after the walk of the literal checker
Walked == pc = "parsed" /\ pf.err \in {NIL, "untagged fields"}

\* C14: when the walk is over the checker has recorded one error for each
\* composite literal alias.Type{...} of the file whose alias is the tracked
\* local name of a standard-library import, whose path.Type is not exempted
\* and which has an element that is not key-value, in source order and for
\* no other literal; parseFile fails exactly when there is one.
C14_LiteralsFlaggedExactly ==
    Walked =>
        LET off == OffendingLits(pf.src)
        IN  /\ pf.errors = [k \in 1..Len(off) |->
                               TypeName(TrackedPath(pf.src, off[k].x), off[k].sel)]
            /\ pf.err = "untagged fields" <=> off # <<>>
            /\ pf.files = <<>> <=> off # <<>>

\* C14 witness: a file with two offending literals of different types, both
\* reported
C14_Witness ==
    /\ Walked
    /\ Len(pf.errors) = 2
    /\ pf.errors[1] # pf.errors[2]
    /\ pf.files = <<>>

\* gopathPackage found path and -nobuild_files matches every file of it
WhollyExcluded(path) ==
    /\ path \in DOMAIN gopath
    /\ gopath[path].found
    /\ \A k \in 1..Len(gopath[path].GoFiles) :
          NoBuild(input.noBuildFiles, path, gopath[path].GoFiles[k])

\* C15: once the resolver has met an imported package of GOPATH all of whose
\* files -nobuild_files excludes, ParseFiles has failed with that error and
\* the path is neither listed nor indexed; the filter touches no local file,
\* so in a returned app every local package holds all the files of its
\* directory and every package holds at least one file.
C15_ExcludedPackageFails ==
    /\ \A path \in DOMAIN gopath :
          WhollyExcluded(path) =>
              /\ NilApp
              /\ ret.err = "all its files were excluded by nobuild_files"
              /\ path \notin DOMAIN app.PackageIndex
              /\ ListEntries(path) = {}
    /\ Returned =>
          /\ \A id \in Range(app.Packages) : Len(pkgs[id].Files) >= 1
          /\ \A dir \in DOMAIN pkgFiles :
                \E id \in Range(app.Packages) :
                    /\ ~External(pkgs, id)
                    /\ PathOf(pkgs, id) = LocalImportPath(dir, input.rnd)
                    /\ pkgs[id].Files = pkgFiles[dir]

\* C15 witness: a listed package imports a path found in GOPATH whose only
\* file the filter excludes, and ParseFiles has failed
C15_Witness ==
    /\ NilApp
    /\ \E path \in DOMAIN gopath :
          /\ WhollyExcluded(path)
          /\ \E id \in Range(app.Packages) : path \in Range(ImportsOf(pkgs, id))

\* the loop of lines 217-235 is over
GraphBuilt ==
    \/ pc \in {"sort", "findCycle"}
    \/ pc = "done" /\ (ret.ok \/ ret.err = "cyclic")

\* C16: once the dependency lists are populated, the list of each listed
\* package holds exactly the packages the index has under an import path
\* of one of its files, in strictly ascending order of import path, hence
\* one entry per path; a path the index lacks gives no entry.
C16_DependencyLists ==
    GraphBuilt =>
        \A id \in Range(app.Packages) :
            LET deps == DepsOf(pkgs, id)
            IN  /\ Range(deps) =
                      {app.PackageIndex[q] :
                          q \in Range(ImportsOf(pkgs, id)) \cap DOMAIN app.PackageIndex}
                /\ \A i, j \in 1..Len(deps) :
                      i < j => StrLess(PathOf(pkgs, deps[i]), PathOf(pkgs, deps[j]))

\* C16 witness: a package whose two files import the same indexed path and
\* whose dependency list has that one entry
C16_Witness ==
    /\ GraphBuilt
    /\ \E id \in Range(app.Packages) :
          /\ Len(pkgs[id].Files) = 2
          /\ pkgs[id].Files[1].ImportPaths = pkgs[id].Files[2].ImportPaths
          /\ Len(pkgs[id].Files[1].ImportPaths) = 1
          /\ pkgs[id].Files[1].ImportPaths[1] \in DOMAIN app.PackageIndex
          /\ Len(DepsOf(pkgs, id)) = 1

(***************************************************************************)
(* Claims about topologicalSort as a whole (SortSpec).                     *)
(***************************************************************************)

\* number of slots of list that hold package id
Count(list, id) == Cardinality({i \in 1..Len(list) : list[i] = id})

SamePackages(list, orig) ==
    /\ Len(list) = Len(orig)
    /\ \A id \in Range(list) \cup Range(orig) : Count(list, id) = Count(orig, id)

\* C17: topologicalSort only permutes the list: in every state of the sort,
\* after each round and at return, with or without an error, the list holds
\* the packages handed over with the same multiplicities, and no step
\* changes a field (import path, files, dependencies, flags) of a package.
C17_SortOnlyPermutes ==
    /\ [](SamePackages(app.Packages, p0))
    /\ [][pkgs' = pkgs]_vars

\* C17 witness: a sort that returned a list in another order than handed over
C17_Witness ==
    /\ pc = "done"
    /\ ret.ok
    /\ app.Packages # p0
    /\ SamePackages(app.Packages, p0)

\* the walk of findCycle: distinct packages of the remaining region
WalkInRemaining ==
    /\ \A i, j \in 1..Len(cycle) : cycle[i] = cycle[j] => i = j
    /\ Range(cycle) \subseteq Range(Remaining)
    /\ Len(cycle) <= Len(Remaining)

\* C18: on a list whose dependencies are all in the list topologicalSort
\* terminates: the sort reaches its return; a round either selects at least
\* one package and shrinks the remaining region or ends the sort (with the
\* cycle error, or with nil once nothing remains); the walk of findCycle
\* never fails to find a next dependency in the remaining set, and it holds
\* distinct remaining packages, so it closes after at most as many steps as
\* there are remaining packages.
C18_SortTerminates ==
    /\ <>(pc = "done")
    /\ [](pc # "panic")
    /\ [](pc = "findCycle" => WalkInRemaining)
    /\ [][pc = "sort" =>
            \/ pc' = "sort" /\ lo' > lo
                 /\ Len(app'.Packages) - lo' < Len(app.Packages) - lo
            \/ pc' = "findCycle" /\ lo' = lo
            \/ pc' = "done" /\ lo = Len(app.Packages)]_vars
    /\ [][pc = "findCycle" =>
            \/ pc' = "findCycle" /\ Len(cycle') = Len(cycle) + 1
            \/ pc' = "done" /\ ret'.err = "cyclic"]_vars

\* C18 witness: after a round that selected a package, the walk over three
\* remaining packages took every one of them before it closed
C18_Witness ==
    /\ pc = "done"
    /\ ret.err = "cyclic"
    /\ lo > 0
    /\ Len(cycle) = Len(Remaining)
    /\ Len(cycle) >= 2

\* C19: in a returned app a package has HasInit exactly when one of its
\* File records has HasInit, and RootPackages holds the listed packages with
\* HasInit and no others, each of them once.
C19_RootPackages ==
    Returned =>
        /\ \A id \in Range(app.Packages) :
              pkgs[id].HasInit <=>
                  \E k \in 1..Len(pkgs[id].Files) : pkgs[id].Files[k].HasInit
        /\ Range(app.RootPackages) =
              {id \in Range(app.Packages) : pkgs[id].HasInit}
        /\ \A i, j \in 1..Len(app.RootPackages) :
              app.RootPackages[i] = app.RootPackages[j] => i = j

\* C19 witness: a returned app with a root package whose second file alone
\* has an init function, next to a package resolved from GOPATH that is no
\* root package
C19_Witness ==
    /\ Returned
    /\ \E id \in Range(app.RootPackages) :
          /\ Len(pkgs[id].Files) = 2
          /\ ~pkgs[id].Files[1].HasInit
          /\ pkgs[id].Files[2].HasInit
    /\ \E id \in Range(app.Packages) :
          External(pkgs, id) /\ id \notin Range(app.RootPackages)

\* A *File is an object of its own: two Files with equal fields are still two
\* Files. The File a package holds is identified by the directory its name
\* is relative to (BaseDir; empty inside the app) and its Name.
FileOf(id, k) == <<pkgs[id].BaseDir, pkgs[id].Files[k].Name>>

FilesOf(id) == {FileOf(id, k) : k \in 1..Len(pkgs[id].Files)}

\* line 155: the Files of app.Files come from parseFile, named inside the app
AppFiles == {<< <<>>, app.Files[k].Name >> : k \in 1..Len(app.Files)}

\* the listed packages that hold the File f
OwnersOf(f) == {id \in Range(app.Packages) : f \in FilesOf(id)}

\* every File of a listed package is in app.Files
FilesComplete ==
    \A id \in Range(app.Packages) : FilesOf(id) \subseteq AppFiles

\* every File of app.Files or of a listed package is held by one package, once
FilesOwnedOnce ==
    /\ \A f \in AppFiles : Cardinality(OwnersOf(f)) = 1
    /\ \A id \in Range(app.Packages) :
          /\ \A f \in FilesOf(id) : OwnersOf(f) = {id}
          /\ \A i, j \in 1..Len(pkgs[id].Files) :
                FileOf(id, i) = FileOf(id, j) => i = j

\* C20: in every returned app, every File of every listed package, the
\* packages resolved from GOPATH included, is in app.Files, and every File
\* belongs to exactly one package.
C20_FilesComplete ==
    Returned => FilesComplete /\ FilesOwnedOnce

=============================================================================
